---- MODULE Spec2Model ----
(***************************************************************************)
(* Hours-of-Service compliance engine of the spotter backend               *)
(* (src/eld_logs): the duty-status ledger, the HOS rules engine and the    *)
(* HTTP handlers that drive them.                                          *)
(*                                                                         *)
(* Modelling conventions                                                   *)
(*  - Time is counted in hundredths of an hour (the two decimal places of  *)
(*    the DecimalField totals), so Hour = 100 and a calendar day is 2400.  *)
(*  - The persistence store is the pair (logs, entries): two tables kept   *)
(*    as sequences, a row's id being its index.  The store keeps the rows  *)
(*    the handlers write, a null end_time included (the handlers write     *)
(*    end_time=None and query end_time__isnull=True), and enforces the     *)
(*    unique_together of ELDLog.Meta.  Every statement runs in autocommit: *)
(*    the handlers of src/eld_logs open no transaction.                    *)
(*  - A handler reads the wall clock (datetime.now() / timezone.now());    *)
(*    the value read is an input of the action and is not assumed to be    *)
(*    later than the values read before (clock adjustment).  The reads of  *)
(*    one handler are a few microseconds apart and are taken as one value. *)
(*  - A Python exception is the field raised of the value an operator      *)
(*    returns; the handler that catches it answers "error".                *)
(*  - The migrations that define the tables are not part of the sources.   *)
(*    The handlers address ELDLog columns that eld_logs/models.py does not *)
(*    declare (vehicle, duty_status, start_time, ...) and create logs      *)
(*    without a trip; the store takes such a write and keeps the declared  *)
(*    columns only.                                                        *)
(*  - request.user ranges over the drivers.                                *)
(***************************************************************************)
EXTENDS Integers, Sequences, FiniteSets, TLC

VARIABLES logs, entries, violations, last, req, schedule, out,
          trips, vehicles, assignments

\* the tables of src/trips: Trip, Vehicle and VehicleAssignment
fleet == <<trips, vehicles, assignments>>

vars == <<logs, entries, violations, last, req, schedule, out, fleet>>

(* ------------------------------ bounds --------------------------------- *)
MaxEntries == 3

(* --------------------------- program constants ------------------------- *)
Hour == 100
Day == 24 * Hour
NULL == -1

MAX_DRIVING_HOURS == 11
MAX_DUTY_HOURS == 14
REQUIRED_BREAK_MINUTES == 30
BREAK_REQUIRED_AFTER_HOURS == 8
REQUIRED_REST_HOURS == 10
CYCLE_70_HOURS == 70
CYCLE_70_DAYS == 8
RestLookbackLogs == 3
DefaultCycleHoursAvailable == 70

STATUS_CHOICES == {"OFF_DUTY", "SLEEPER_BERTH", "DRIVING", "ON_DUTY_NOT_DRIVING"}
RestStatuses == {"OFF_DUTY", "SLEEPER_BERTH"}

(* ------------------------------- inputs -------------------------------- *)
Drivers == {"d1"}
\* "" is a request without the status key; "BOGUS" an unrecognised value
StatusInputs == {"OFF_DUTY", "DRIVING", "ON_DUTY_NOT_DRIVING", "", "BOGUS"}
ClockValues == {0, 10 * Hour}
PlannedHours == {0, 5 * Hour}

date(t) == t \div Day
\* requests in flight at the same time (the interleaved specification)
Requests == {1, 2}
ConcurrentStatusInputs == {"OFF_DUTY", "ON_DUTY_NOT_DRIVING"}
\* log_date values ELDLogService.create_daily_log is called with
LogDates == {0, 1}

Max(a, b) == IF a >= b THEN a ELSE b
Min(a, b) == IF a <= b THEN a ELSE b

(* ------------------------- the persistence store ----------------------- *)
\* ELDLog row as created with the field defaults of the model
NewLog(d, dt) ==
    [driver |-> d, log_date |-> dt,
     off_duty_hours |-> 0, sleeper_berth_hours |-> 0,
     driving_hours |-> 0, on_duty_not_driving_hours |-> 0,
     cycle_hours_used |-> 0,
     cycle_hours_available |-> DefaultCycleHoursAvailable * Hour,
     has_violations |-> FALSE,
     is_certified |-> FALSE, certified_at |-> NULL, signature |-> ""]

NewEntry(lid, s, t) ==
    [eld_log |-> lid, status |-> s, start_time |-> t, end_time |-> NULL]

LogIds(L, d, dt) == {i \in DOMAIN L : L[i].driver = d /\ L[i].log_date = dt}

\* unique_together = ['driver', 'log_date']: an INSERT of a second row fails
UniqueViolation_NoConstraint(L, d, dt) == FALSE
UniqueViolation(L, d, dt) == LogIds(L, d, dt) # {}

\* ELDLog.objects.get_or_create(driver=, log_date=, defaults=)
get_or_create(L, d, dt) ==
    IF LogIds(L, d, dt) # {} THEN L ELSE Append(L, NewLog(d, dt))

TodayLog(L, d, dt) == CHOOSE i \in LogIds(L, d, dt) : \A j \in LogIds(L, d, dt) : i <= j

EntriesOf(E, lid) == {i \in DOMAIN E : E[i].eld_log = lid}
OpenEntriesOf(E, lid) == {i \in EntriesOf(E, lid) : E[i].end_time = NULL}

\* rows of S in ascending start_time (Meta.ordering), rows of equal start_time
\* in insertion order
RECURSIVE SortByStart(_, _)
SortByStart(S, E) ==
    IF S = {} THEN << >>
    ELSE LET m == CHOOSE i \in S : \A j \in S :
                     \/ E[i].start_time < E[j].start_time
                     \/ (E[i].start_time = E[j].start_time /\ i <= j)
         IN <<m>> \o SortByStart(S \ {m}, E)

RECURSIVE Reverse(_)
Reverse(s) == IF s = << >> THEN << >> ELSE Reverse(Tail(s)) \o <<Head(s)>>

\* DutyStatusEntry.duration, in hundredths of an hour; the subtraction raises
\* TypeError when end_time is None, which the callers test with HasEnd
HasEnd(e) == e.end_time # NULL
duration(e) == e.end_time - e.start_time
\* duration_minutes >= m, duration_hours >= h
DurationMinutesAtLeast(e, m) == duration(e) * 60 >= m * Hour
DurationHoursAtLeast(e, h) == duration(e) >= h * Hour

(* --------------------------- HOSRulesEngine ---------------------------- *)
_calculate_daily_times(log) ==
    [driving |-> log.driving_hours,
     on_duty |-> log.on_duty_not_driving_hours,
     duty |-> log.driving_hours + log.on_duty_not_driving_hours,
     off_duty |-> log.off_duty_hours,
     sleeper |-> log.sleeper_berth_hours]

RECURSIVE SumDuty(_, _)
SumDuty(S, L) ==
    IF S = {} THEN 0
    ELSE LET i == CHOOSE x \in S : TRUE
         IN L[i].driving_hours + L[i].on_duty_not_driving_hours + SumDuty(S \ {i}, L)

_calculate_cycle_times(L, d, today) ==
    LET cycle_start == today - (CYCLE_70_DAYS - 1)
        window == {i \in DOMAIN L : /\ L[i].driver = d
                                    /\ L[i].log_date >= cycle_start
                                    /\ L[i].log_date <= today}
        total == SumDuty(window, L)
    IN [hours_used |-> total,
        hours_available |-> Max(0, CYCLE_70_HOURS * Hour - total),
        days_count |-> Cardinality(window)]

\* the inner loop over next_entries: the first row that is open raises in
\* duration_minutes, the first one of 30 minutes or more resets the total
RECURSIVE BreakScan(_, _)
BreakScan(s, E) ==
    IF s = << >> THEN "none"
    ELSE IF ~HasEnd(E[Head(s)]) THEN "raise"
    ELSE IF DurationMinutesAtLeast(E[Head(s)], REQUIRED_BREAK_MINUTES) THEN "reset"
    ELSE BreakScan(Tail(s), E)

RECURSIVE BreakFold(_, _, _, _)
BreakFold(s, E, lid, total) ==
    IF s = << >> THEN [raised |-> FALSE, total |-> total]
    ELSE LET e == E[Head(s)] IN
         IF ~HasEnd(e) THEN [raised |-> TRUE, total |-> 0]
         ELSE LET t1 == total + duration(e)
                  next_entries == SortByStart(
                      {i \in EntriesOf(E, lid) : /\ E[i].start_time > e.end_time
                                                 /\ E[i].status \in RestStatuses}, E)
                  sc == BreakScan(next_entries, E)
              IN IF sc = "raise" THEN [raised |-> TRUE, total |-> 0]
                 ELSE BreakFold(Tail(s), E, lid, IF sc = "reset" THEN 0 ELSE t1)

_check_break_requirement(E, lid) ==
    LET driving_entries == SortByStart(
            {i \in EntriesOf(E, lid) : E[i].status = "DRIVING"}, E)
        f == BreakFold(driving_entries, E, lid, 0)
        break_required == f.total >= BREAK_REQUIRED_AFTER_HOURS * Hour
    IN IF driving_entries = << >>
       THEN [raised |-> FALSE, required |-> FALSE, completed |-> TRUE,
             time_since_last_break |-> 0]
       ELSE IF f.raised
       THEN [raised |-> TRUE, required |-> FALSE, completed |-> FALSE,
             time_since_last_break |-> 0]
       ELSE [raised |-> FALSE, required |-> break_required,
             completed |-> ~break_required, time_since_last_break |-> f.total]

\* the driver's logs of log_date <= today, latest first
RECURSIVE LogsByDateDesc(_, _)
LogsByDateDesc(S, L) ==
    IF S = {} THEN << >>
    ELSE LET m == CHOOSE i \in S : \A j \in S :
                     \/ L[i].log_date > L[j].log_date
                     \/ (L[i].log_date = L[j].log_date /\ i <= j)
         IN <<m>> \o LogsByDateDesc(S \ {m}, L)

RECURSIVE RestEntriesOfLogs(_, _)
RestEntriesOfLogs(ls, E) ==
    IF ls = << >> THEN << >>
    ELSE Reverse(SortByStart({i \in EntriesOf(E, Head(ls)) :
                                 E[i].status \in RestStatuses}, E))
         \o RestEntriesOfLogs(Tail(ls), E)

\* 0: no rest row of 10 hours, -1: duration_hours raised, else the row found
RECURSIVE RestScan(_, _)
RestScan(s, E) ==
    IF s = << >> THEN 0
    ELSE IF ~HasEnd(E[Head(s)]) THEN -1
    ELSE IF DurationHoursAtLeast(E[Head(s)], REQUIRED_REST_HOURS) THEN Head(s)
    ELSE RestScan(Tail(s), E)

_calculate_rest_status(L, E, d, today, now) ==
    LET all == LogsByDateDesc({i \in DOMAIN L : L[i].driver = d /\ L[i].log_date <= today}, L)
        last_logs == SubSeq(all, 1, Min(RestLookbackLogs, Len(all)))
        found == RestScan(RestEntriesOfLogs(last_logs, E), E)
    IN IF found = -1
       THEN [raised |-> TRUE, hours_since_last_rest |-> 0,
             needs_rest |-> FALSE, in_rest_period |-> FALSE]
       ELSE IF found = 0
       THEN [raised |-> FALSE, hours_since_last_rest |-> 24 * Hour,
             needs_rest |-> TRUE, in_rest_period |-> FALSE]
       ELSE [raised |-> FALSE,
             hours_since_last_rest |-> now - E[found].end_time,
             needs_rest |-> (now - E[found].end_time) >= MAX_DUTY_HOURS * Hour,
             in_rest_period |-> E[found].end_time > now]

_calculate_available_times(daily_times, cycle_times, rest_status) ==
    LET driving_available == Max(0, MAX_DRIVING_HOURS * Hour - daily_times.driving)
        duty_available == Max(0, MAX_DUTY_HOURS * Hour - daily_times.duty)
        rest_block == rest_status.needs_rest /\ ~rest_status.in_rest_period
    IN [driving |-> IF rest_block THEN 0 ELSE driving_available,
        duty |-> IF rest_block THEN 0 ELSE duty_available,
        cycle |-> cycle_times.hours_available]

_detect_violations_Inclusive(daily_times, cycle_times) ==
    {k \in {"DRIVING_LIMIT", "DUTY_LIMIT", "CYCLE_LIMIT"} :
        \/ (k = "DRIVING_LIMIT" /\ daily_times.driving >= MAX_DRIVING_HOURS * Hour)
        \/ (k = "DUTY_LIMIT" /\ daily_times.duty >= MAX_DUTY_HOURS * Hour)
        \/ (k = "CYCLE_LIMIT" /\ cycle_times.hours_used >= CYCLE_70_HOURS * Hour)}

_detect_violations(daily_times, cycle_times) ==
    {k \in {"DRIVING_LIMIT", "DUTY_LIMIT", "CYCLE_LIMIT"} :
        \/ (k = "DRIVING_LIMIT" /\ daily_times.driving > MAX_DRIVING_HOURS * Hour)
        \/ (k = "DUTY_LIMIT" /\ daily_times.duty > MAX_DUTY_HOURS * Hour)
        \/ (k = "CYCLE_LIMIT" /\ cycle_times.hours_used > CYCLE_70_HOURS * Hour)}

\* get_current_hos_status on the store (L, E) in which today's log exists
\* (its first statement, _get_or_create_today_log, is applied by the caller)
get_current_hos_status(L, E, d, now) ==
    LET today == date(now)
        lid == TodayLog(L, d, today)
        daily_times == _calculate_daily_times(L[lid])
        cycle_times == _calculate_cycle_times(L, d, today)
        break_status == _check_break_requirement(E, lid)
        rest_status == _calculate_rest_status(L, E, d, today, now)
    IN [raised |-> break_status.raised \/ rest_status.raised,
        daily |-> daily_times,
        cycle |-> cycle_times,
        break |-> break_status,
        rest |-> rest_status,
        available |-> _calculate_available_times(daily_times, cycle_times, rest_status),
        violations |-> _detect_violations(daily_times, cycle_times)]

\* can_start_driving on a status that did not raise
can_start_driving(status) ==
    IF status.available.driving <= 0 THEN [can |-> FALSE, reason |-> "DAILY_DRIVING"]
    ELSE IF status.available.duty <= 0 THEN [can |-> FALSE, reason |-> "DAILY_DUTY"]
    ELSE IF status.available.cycle <= 0 THEN [can |-> FALSE, reason |-> "CYCLE"]
    ELSE IF status.break.required /\ ~status.break.completed
         THEN [can |-> FALSE, reason |-> "BREAK"]
    ELSE IF status.rest.needs_rest THEN [can |-> FALSE, reason |-> "REST"]
    ELSE [can |-> TRUE, reason |-> "GRANTED"]

(* ------------------------------ ELDLog --------------------------------- *)
RECURSIVE SumDuration(_, _)
SumDuration(S, E) ==
    IF S = {} THEN 0
    ELSE LET i == CHOOSE x \in S : TRUE
         IN duration(E[i]) + SumDuration(S \ {i}, E)

total_duty_hours(log) == log.driving_hours + log.on_duty_not_driving_hours

check_violations(log) ==
    [log EXCEPT !.has_violations =
        \/ log.driving_hours > 11 * Hour
        \/ total_duty_hours(log) > 14 * Hour
        \/ log.cycle_hours_used > 70 * Hour]

\* calculate_daily_totals: entry.duration_hours raises on a row without
\* end_time, before anything is assigned or saved
calculate_daily_totals(L, E, lid) ==
    IF \E i \in EntriesOf(E, lid) : ~HasEnd(E[i])
    THEN [raised |-> TRUE, L |-> L]
    ELSE LET tot(st) == SumDuration({i \in EntriesOf(E, lid) : E[i].status = st}, E)
             log1 == [L[lid] EXCEPT !.off_duty_hours = tot("OFF_DUTY"),
                                    !.sleeper_berth_hours = tot("SLEEPER_BERTH"),
                                    !.driving_hours = tot("DRIVING"),
                                    !.on_duty_not_driving_hours = tot("ON_DUTY_NOT_DRIVING")]
         IN [raised |-> FALSE, L |-> [L EXCEPT ![lid] = check_violations(log1)]]

(* ------------------------------ handlers ------------------------------- *)
\* the response: the handler that answered, its outcome, and the reason
\* string of can_start_driving where the handler reports one
Respond(op, result, reason) ==
    /\ last' = [op |-> op, result |-> result, reason |-> reason]
    /\ UNCHANGED <<req, schedule, out, fleet>>

\* if <status> not in valid_statuses
IsValidStatus_Lenient(s) == s # ""
IsValidStatus(s) == s \in {"OFF_DUTY", "SLEEPER_BERTH", "DRIVING", "ON_DUTY_NOT_DRIVING"}

\* str.lower() on the values a request can carry
Lower(s) ==
    CASE s = "OFF_DUTY" -> "off_duty"
      [] s = "SLEEPER_BERTH" -> "sleeper_berth"
      [] s = "DRIVING" -> "driving"
      [] s = "ON_DUTY_NOT_DRIVING" -> "on_duty_not_driving"
      [] s = "BOGUS" -> "bogus"
      [] OTHER -> s

\* .filter(end_time__isnull=True).first(): the open row of least start_time,
\* any of them when several share it; 0 when there is none
FirstByStart(S, E) ==
    IF S = {} THEN {0}
    ELSE {i \in S : \A j \in S : E[i].start_time <= E[j].start_time}

\* .order_by('-start_time').first(): a row of greatest start_time; 0 when none
LastByStart(S, E) ==
    IF S = {} THEN {0}
    ELSE {i \in S : \A j \in S : E[i].start_time >= E[j].start_time}

CloseEntry(E, i, now) == IF i = 0 THEN E ELSE [E EXCEPT ![i].end_time = now]

\* views.change_duty_status (POST hos/status/change/)
ChangeDutyStatus(d, s, now) ==
    IF ~IsValidStatus(s)
    THEN /\ Respond("change_duty_status", "invalid_status", "")
         /\ UNCHANGED <<logs, entries, violations>>
    ELSE /\ Len(entries) < MaxEntries
         /\ LET L1 == get_or_create(logs, d, date(now))
                lid == TodayLog(L1, d, date(now))
            IN \E current_entry \in FirstByStart(OpenEntriesOf(entries, lid), entries) :
                 LET E1 == CloseEntry(entries, current_entry, now)
                     E2 == Append(E1, NewEntry(lid, s, now))
                     tot == calculate_daily_totals(L1, E2, lid)
                 IN /\ logs' = tot.L
                    /\ entries' = E2
                    /\ Respond("change_duty_status", IF tot.raised THEN "error" ELSE "ok", "")
         /\ UNCHANGED violations

\* if duty_status == 'DRIVING': ... if not can_drive: return 403
DrivingGate_Open(s, can) == FALSE
DrivingGate(s, can) == s = "DRIVING" /\ ~can

\* HOSRulesEngine.record_duty_status_change on the store (L1, E) in which
\* today's log exists; last_entry is the row order_by('-start_time') puts first
record_duty_status_change(L1, E, d, s, now, last_entry) ==
    LET lid == TodayLog(L1, d, date(now))
        E1 == IF last_entry # 0 /\ E[last_entry].end_time = NULL
              THEN CloseEntry(E, last_entry, now) ELSE E
        E2 == Append(E1, NewEntry(lid, s, now))
        tot == calculate_daily_totals(L1, E2, lid)
    IN [raised |-> tot.raised, L |-> tot.L, E |-> E2]

\* ELDLogViewSet.change_duty_status (the gated path)
GatedChangeDutyStatus(d, s, now) ==
    IF s = ""
    THEN /\ Respond("gated_change_duty_status", "missing_fields", "")
         /\ UNCHANGED <<logs, entries, violations>>
    ELSE IF ~IsValidStatus(s)
    THEN /\ Respond("gated_change_duty_status", "invalid_status", "")
         /\ UNCHANGED <<logs, entries, violations>>
    ELSE LET L1 == get_or_create(logs, d, date(now))
             lid == TodayLog(L1, d, date(now))
             st == get_current_hos_status(L1, entries, d, now)
             verdict == can_start_driving(st)
         IN IF s = "DRIVING" /\ st.raised
            THEN /\ logs' = L1
                 /\ Respond("gated_change_duty_status", "error", "")
                 /\ UNCHANGED <<entries, violations>>
            ELSE IF DrivingGate(s, verdict.can)
            THEN /\ logs' = L1
                 /\ Respond("gated_change_duty_status", "driving_not_permitted", verdict.reason)
                 /\ UNCHANGED <<entries, violations>>
            ELSE /\ Len(entries) < MaxEntries
                 /\ \E last_entry \in LastByStart(EntriesOf(entries, lid), entries) :
                      LET r == record_duty_status_change(L1, entries, d, s, now, last_entry)
                          st2 == get_current_hos_status(r.L, r.E, d, now)
                      IN /\ logs' = r.L
                         /\ entries' = r.E
                         /\ Respond("gated_change_duty_status", IF r.raised \/ st2.raised THEN "error" ELSE "created", "")
                 /\ UNCHANGED violations

\* views.add_driver_activity_segment
AddDriverActivitySegment(d, s, now) ==
    IF s = ""
    THEN /\ Respond("add_driver_activity_segment", "status_required", "")
         /\ UNCHANGED <<logs, entries, violations>>
    ELSE IF ~IsValidStatus(s)
    THEN /\ Respond("add_driver_activity_segment", "invalid_status", "")
         /\ UNCHANGED <<logs, entries, violations>>
    ELSE /\ Len(entries) < MaxEntries
         /\ LET L1 == get_or_create(logs, d, date(now))
                lid == TodayLog(L1, d, date(now))
            IN \E current_segment \in FirstByStart(OpenEntriesOf(entries, lid), entries) :
                 /\ logs' = L1
                 /\ entries' = Append(CloseEntry(entries, current_segment, now),
                                      NewEntry(lid, s, now))
                 /\ Respond("add_driver_activity_segment", "ok", "")
         /\ UNCHANGED violations

\* views.create_hos_status_change (POST hos/status-change/)
CreateHosStatusChange(d, s, now) ==
    IF s = ""
    THEN /\ Respond("create_hos_status_change", "status_required", "")
         /\ UNCHANGED <<logs, entries, violations>>
    ELSE IF Lower(s) \notin {"off_duty", "sleeper_berth", "driving", "on_duty_not_driving"}
    THEN /\ Respond("create_hos_status_change", "invalid_status", "")
         /\ UNCHANGED <<logs, entries, violations>>
    ELSE IF UniqueViolation(logs, d, date(now))
    THEN /\ Respond("create_hos_status_change", "error", "")
         /\ UNCHANGED <<logs, entries, violations>>
    ELSE /\ logs' = Append(logs, NewLog(d, date(now)))
         /\ Respond("create_hos_status_change", "ok", "")
         /\ UNCHANGED <<entries, violations>>

\* ELDLogService.create_daily_log
create_daily_log(d, log_date) ==
    IF UniqueViolation(logs, d, log_date)
    THEN /\ Respond("create_daily_log", "error", "")
         /\ UNCHANGED <<logs, entries, violations>>
    ELSE /\ logs' = Append(logs, NewLog(d, log_date))
         /\ Respond("create_daily_log", "ok", "")
         /\ UNCHANGED <<entries, violations>>

\* the queries of ELDLogViewSet: each builds an engine and calls
\* get_current_hos_status, whose first statement is _get_or_create_today_log
EngineQuery(op, d, now) ==
    LET L1 == get_or_create(logs, d, date(now))
        st == get_current_hos_status(L1, entries, d, now)
    IN /\ logs' = L1
       /\ IF st.raised
          THEN Respond(op, "error", "")
          ELSE Respond(op, "ok",
                       IF op = "can_drive" THEN can_start_driving(st).reason ELSE "")
       /\ UNCHANGED <<entries, violations>>

hos_status(d, now) == EngineQuery("hos_status", d, now)
can_drive(d, now) == EngineQuery("can_drive", d, now)
available_time(d, now) == EngineQuery("available_time", d, now)

predict_violations(d, planned_hours, now) ==
    IF planned_hours <= 0
    THEN /\ Respond("predict_violations", "planned_hours_required", "")
         /\ UNCHANGED <<logs, entries, violations>>
    ELSE EngineQuery("predict_violations", d, now)

\* views.get_driver_current_hos_status (GET hos/current-status/)
get_driver_current_hos_status(d, now) ==
    /\ Respond("get_driver_current_hos_status", "ok", "")
    /\ UNCHANGED <<logs, entries, violations>>

\* instance is the ELDLog object the handler holds: the row as it was read
IdleRequest == [pc |-> "idle", kind |-> "", status |-> "", now |-> 0,
                eld_log |-> 0, current |-> 0, instance |-> NULL]

\* Company.operation_schedule and its default
OPERATION_SCHEDULE_CHOICES == {"7_DAY", "8_DAY"}
DefaultSchedule == "8_DAY"

\* the value a method of the engine returned, when one is applied on its own
NoOutput == [op |-> "none"]

\* Vehicle rows with the field defaults of the model; no trip, no assignment
Vehicles == {"v1", "v2"}
NoDriver == "None"
NewVehicle == [operational_status |-> "AVAILABLE", current_driver |-> NoDriver,
               is_active |-> TRUE]

NoFleet ==
    /\ trips = << >>
    /\ vehicles = [v \in Vehicles |-> NewVehicle]
    /\ assignments = << >>

Init ==
    /\ logs = << >>
    /\ entries = << >>
    /\ violations = << >>
    /\ last = [op |-> "none", result |-> "", reason |-> ""]
    /\ req = [r \in Requests |-> IdleRequest]
    /\ schedule = DefaultSchedule
    /\ out = NoOutput
    /\ NoFleet

Next ==
    \/ \E d \in Drivers, s \in StatusInputs, now \in ClockValues : ChangeDutyStatus(d, s, now)
    \/ \E d \in Drivers, s \in StatusInputs, now \in ClockValues : GatedChangeDutyStatus(d, s, now)
    \/ \E d \in Drivers, s \in StatusInputs, now \in ClockValues : AddDriverActivitySegment(d, s, now)
    \/ \E d \in Drivers, s \in StatusInputs, now \in ClockValues : CreateHosStatusChange(d, s, now)
    \/ \E d \in Drivers, log_date \in LogDates : create_daily_log(d, log_date)
    \/ \E d \in Drivers, now \in ClockValues : hos_status(d, now)
    \/ \E d \in Drivers, now \in ClockValues : can_drive(d, now)
    \/ \E d \in Drivers, now \in ClockValues : available_time(d, now)
    \/ \E d \in Drivers, h \in PlannedHours, now \in ClockValues : predict_violations(d, h, now)
    \/ \E d \in Drivers, now \in ClockValues : get_driver_current_hos_status(d, now)

Spec == Init /\ [][Next]_vars

(* ----------------- status changes running concurrently ----------------- *)
(* Two requests of one driver, interleaved statement by statement: each    *)
(* ORM call is one autocommitted statement and the handlers take no lock   *)
(* and open no transaction.  kind "view" is views.change_duty_status,      *)
(* kind "engine" is HOSRulesEngine.record_duty_status_change with a status *)
(* the driving gate does not apply to.  Every clock read is later than all *)
(* the times read or stored before, so that only the interleaving varies.  *)
SetMax(S) == IF S = {} THEN 0 ELSE CHOOSE x \in S : \A y \in S : x >= y

NextTick ==
    1 + SetMax({entries[i].start_time : i \in DOMAIN entries}
               \cup {entries[i].end_time : i \in DOMAIN entries}
               \cup {req[r].now : r \in Requests})

\* now = ...; eld_log, created = ELDLog.objects.get_or_create(...)
StartRequest(r, kind, d, s) ==
    /\ req[r].pc \in {"idle", "done"}
    /\ Len(entries) + Cardinality({q \in Requests : req[q].pc \in {"select", "close", "create"}})
          < MaxEntries
    /\ LET now == NextTick
           L1 == get_or_create(logs, d, date(now))
       IN /\ logs' = L1
          /\ req' = [req EXCEPT ![r] = [pc |-> "select", kind |-> kind, status |-> s,
                                        now |-> now,
                                        eld_log |-> TodayLog(L1, d, date(now)),
                                        current |-> 0,
                                        instance |-> L1[TodayLog(L1, d, date(now))]]]
    /\ UNCHANGED <<entries, violations, last, schedule, out, fleet>>

\* current_entry = ...filter(end_time__isnull=True).first()            (view)
\* last_entry = ...order_by('-start_time').first()                     (engine)
SelectActive(r) ==
    /\ req[r].pc = "select"
    /\ \E e \in IF req[r].kind = "view"
                THEN FirstByStart(OpenEntriesOf(entries, req[r].eld_log), entries)
                ELSE LastByStart(EntriesOf(entries, req[r].eld_log), entries) :
          req' = [req EXCEPT ![r].pc = "close",
                             ![r].current = IF e # 0 /\ entries[e].end_time = NULL
                                            THEN e ELSE 0]
    /\ UNCHANGED <<logs, entries, violations, last, schedule, out, fleet>>

\* if current_entry: current_entry.end_time = now; current_entry.save()
CloseActive(r) ==
    /\ req[r].pc = "close"
    /\ entries' = CloseEntry(entries, req[r].current, req[r].now)
    /\ req' = [req EXCEPT ![r].pc = "create"]
    /\ UNCHANGED <<logs, violations, last, schedule, out, fleet>>

\* DutyStatusEntry.objects.create(..., start_time=now, end_time=None, ...)
CreateEntry(r) ==
    /\ req[r].pc = "create"
    /\ entries' = Append(entries, NewEntry(req[r].eld_log, req[r].status, req[r].now))
    /\ req' = [req EXCEPT ![r].pc = "totals"]
    /\ UNCHANGED <<logs, violations, last, schedule, out, fleet>>

\* eld_log.calculate_daily_totals() and the response: the totals are assigned
\* to the object read when the request started and save() writes every column
\* of that object
Recalculate(r) ==
    /\ req[r].pc = "totals"
    /\ LET held == [logs EXCEPT ![req[r].eld_log] = req[r].instance]
           tot == calculate_daily_totals(held, entries, req[r].eld_log)
       IN /\ logs' = IF tot.raised THEN logs ELSE tot.L
          /\ last' = [op |-> req[r].kind, result |-> IF tot.raised THEN "error" ELSE "ok",
                      reason |-> ""]
    /\ req' = [req EXCEPT ![r].pc = "done"]
    /\ UNCHANGED <<entries, violations, schedule, out, fleet>>

NextConc ==
    \/ \E r \in Requests, kind \in {"view", "engine"}, d \in Drivers,
          s \in ConcurrentStatusInputs : StartRequest(r, kind, d, s)
    \/ \E r \in Requests : SelectActive(r)
    \/ \E r \in Requests : CloseActive(r)
    \/ \E r \in Requests : CreateEntry(r)
    \/ \E r \in Requests : Recalculate(r)

SpecConc == Init /\ [][NextConc]_vars

(* ------------------ the engine's methods applied on their own ---------- *)
(* The methods of HOSRulesEngine and ELDLog.calculate_daily_totals read    *)
(* the stored rows only.  Here they are applied to ledgers drawn from      *)
(* bounded sets: stored totals at and around the limits, logs at the edge  *)
(* of the cycle window, and a day of segments that follow one another.     *)
_get_limiting_factor(available) ==
    LET min_time == Min(available.driving, Min(available.duty, available.cycle))
    IN IF min_time = available.driving THEN "daily_driving_limit"
       ELSE IF min_time = available.duty THEN "daily_duty_window"
       ELSE "cycle_limit"

\* calculate_available_driving_time on a status that did not raise
calculate_available_driving_time(status) ==
    [by_daily_limit |-> status.available.driving,
     by_duty_window |-> status.available.duty,
     by_cycle_limit |-> status.available.cycle,
     effective_available |-> Min(status.available.driving,
                                 Min(status.available.duty, status.available.cycle)),
     limiting_factor |-> _get_limiting_factor(status.available)]

\* predict_violation on a status that did not raise: the potential violations
\* as (type, excess_hours)
predict_violation(status, planned_driving_hours) ==
    LET new_driving_hours == status.daily.driving + planned_driving_hours
        new_duty_hours == status.daily.duty + planned_driving_hours
        new_cycle_hours == status.cycle.hours_used + planned_driving_hours
    IN (IF new_driving_hours > MAX_DRIVING_HOURS * Hour
        THEN {[type |-> "DRIVING_LIMIT",
               excess_hours |-> new_driving_hours - MAX_DRIVING_HOURS * Hour]}
        ELSE {})
       \cup
       (IF new_duty_hours > MAX_DUTY_HOURS * Hour
        THEN {[type |-> "DUTY_LIMIT",
               excess_hours |-> new_duty_hours - MAX_DUTY_HOURS * Hour]}
        ELSE {})
       \cup
       (IF new_cycle_hours > CYCLE_70_HOURS * Hour
        THEN {[type |-> "CYCLE_LIMIT",
               excess_hours |-> new_cycle_hours - CYCLE_70_HOURS * Hour]}
        ELSE {})

\* self.today and timezone.now() of the engine under study: the first day of
\* the 8-day window is day 0
EngineToday == CYCLE_70_DAYS - 1
EngineNow == EngineToday * Day + 20 * Hour

\* stored totals of today's log: (driving_hours, on_duty_not_driving_hours)
TodayDriving == {0, 7 * Hour, 11 * Hour, 11 * Hour + 1}
TodayOnDuty == {0, 3 * Hour, 6 * Hour}
\* on_duty_not_driving_hours of the logs of day 0, of the day before yesterday
\* and of yesterday
EdgeDayOnDuty == {0, 21 * Hour}
PastDayOnDuty == {0, 24 * Hour}
YesterdayOnDuty == 24 * Hour

StoredLog(d, dt, driving, on_duty) ==
    [NewLog(d, dt) EXCEPT !.driving_hours = driving,
                          !.on_duty_not_driving_hours = on_duty]

\* the instants of today at which a segment starts or ends
SegmentTimes == {EngineToday * Day + h * Hour : h \in {0, 8, 9, 19}}
SegmentStatuses == {"DRIVING", "OFF_DUTY"}
ActiveStatuses == {"ON_DUTY_NOT_DRIVING", "OFF_DUTY"}

LastEnd(c) == IF c = << >> THEN 0 ELSE c[Len(c)].end_time

\* the closed segments of log lid, of at most n rows, in the order they were
\* recorded, none starting before the one before it ended
RECURSIVE ClosedLedgers(_, _)
ClosedLedgers(lid, n) ==
    IF n = 0 THEN {<< >>}
    ELSE LET prev == ClosedLedgers(lid, n - 1)
         IN prev \cup UNION {
              {Append(c, [eld_log |-> lid, status |-> s, start_time |-> a, end_time |-> b]) :
                 <<s, a, b>> \in {x \in SegmentStatuses \X SegmentTimes \X SegmentTimes :
                                     x[2] >= LastEnd(c) /\ x[2] < x[3]}} :
              c \in {p \in prev : Len(p) = n - 1}}

\* a ledger: closed segments, then possibly the active one
Ledgers(lid) ==
    ClosedLedgers(lid, MaxEntries)
    \cup UNION {
           {Append(c, NewEntry(lid, s, a)) :
              <<s, a>> \in {x \in ActiveStatuses \X SegmentTimes : x[2] >= LastEnd(c)}} :
           c \in ClosedLedgers(lid, MaxEntries - 1)}

InitEngine ==
    /\ \E d \in Drivers, e \in EdgeDayOnDuty, p \in PastDayOnDuty,
          dr \in TodayDriving, od \in TodayOnDuty :
          logs = <<StoredLog(d, 0, 0, e),
                   StoredLog(d, EngineToday - 2, 0, p),
                   StoredLog(d, EngineToday - 1, 0, YesterdayOnDuty),
                   StoredLog(d, EngineToday, dr, od)>>
    /\ entries \in Ledgers(4)
    /\ violations = << >>
    /\ last = [op |-> "none", result |-> "", reason |-> ""]
    /\ req = [r \in Requests |-> IdleRequest]
    /\ schedule \in OPERATION_SCHEDULE_CHOICES
    /\ out = NoOutput
    /\ NoFleet

\* a method that only reads
Returns(v) ==
    /\ out' = v
    /\ UNCHANGED <<logs, entries, violations, last, req, schedule, fleet>>

Apply_calculate_cycle_times(d) ==
    Returns([op |-> "_calculate_cycle_times",
             v |-> _calculate_cycle_times(logs, d, EngineToday)])

Apply_check_break_requirement(d) ==
    Returns([op |-> "_check_break_requirement",
             v |-> _check_break_requirement(entries, TodayLog(logs, d, EngineToday))])

\* a method that starts with get_current_hos_status: today's log is there,
\* so that _get_or_create_today_log creates nothing
EngineMethod(op, st, v) ==
    Returns(IF st.raised THEN [op |-> op, raised |-> TRUE]
            ELSE [op |-> op, raised |-> FALSE, status |-> st, v |-> v])

Apply_can_start_driving(d) ==
    LET st == get_current_hos_status(logs, entries, d, EngineNow)
    IN EngineMethod("can_start_driving", st, can_start_driving(st))

Apply_calculate_available_driving_time(d) ==
    LET st == get_current_hos_status(logs, entries, d, EngineNow)
    IN EngineMethod("calculate_available_driving_time", st,
                    calculate_available_driving_time(st))

Apply_predict_violation(d, planned_driving_hours) ==
    LET st == get_current_hos_status(logs, entries, d, EngineNow)
    IN EngineMethod("predict_violation", st,
                    [planned |-> planned_driving_hours,
                     violations |-> predict_violation(st, planned_driving_hours)])

Apply_calculate_daily_totals(d) ==
    LET lid == TodayLog(logs, d, EngineToday)
        tot == calculate_daily_totals(logs, entries, lid)
    IN /\ logs' = tot.L
       /\ out' = [op |-> "calculate_daily_totals", raised |-> tot.raised, eld_log |-> lid]
       /\ UNCHANGED <<entries, violations, last, req, schedule, fleet>>

\* ELDLog.check_violations on the stored totals of today's log, then save()
Apply_check_violations(d) ==
    LET lid == TodayLog(logs, d, EngineToday)
    IN /\ logs' = [logs EXCEPT ![lid] = check_violations(logs[lid])]
       /\ out' = [op |-> "check_violations", eld_log |-> lid]
       /\ UNCHANGED <<entries, violations, last, req, schedule, fleet>>

\* views.calculate_hos_statistics as first defined (views.py 586): an open
\* segment counts up to now.  The module defines the name a second time further
\* down, and a call made after the module is loaded runs that second body.
calculate_hos_statistics_shadowed(E, segments, now) ==
    LET closed == [i \in DOMAIN E |->
                      IF HasEnd(E[i]) THEN E[i] ELSE [E[i] EXCEPT !.end_time = now]]
        tot(st) == SumDuration({i \in segments : E[i].status = st}, closed)
    IN [driving_time |-> tot("DRIVING"),
        on_duty_time |-> tot("ON_DUTY_NOT_DRIVING"),
        off_duty_time |-> tot("OFF_DUTY"),
        sleeper_berth_time |-> tot("SLEEPER_BERTH")]

\* views.calculate_hos_statistics as the module leaves it (views.py 710): the
\* segments with an end_time, summed by status
calculate_hos_statistics(E, segments) ==
    LET tot(st) == SumDuration({i \in segments : HasEnd(E[i]) /\ E[i].status = st}, E)
    IN [drive_time |-> tot("DRIVING"),
        on_duty_time |-> tot("ON_DUTY_NOT_DRIVING"),
        off_duty_time |-> tot("OFF_DUTY"),
        sleeper_time |-> tot("SLEEPER_BERTH")]

\* hos_statistics of views.get_driver_activity: the segments of today's log
Apply_calculate_hos_statistics(d) ==
    Returns([op |-> "calculate_hos_statistics",
             eld_log |-> TodayLog(logs, d, EngineToday),
             v |-> calculate_hos_statistics(
                      entries, EntriesOf(entries, TodayLog(logs, d, EngineToday)))])

NextEngine ==
    \/ \E d \in Drivers : Apply_calculate_cycle_times(d)
    \/ \E d \in Drivers : Apply_check_break_requirement(d)
    \/ \E d \in Drivers : Apply_can_start_driving(d)
    \/ \E d \in Drivers : Apply_calculate_available_driving_time(d)
    \/ \E d \in Drivers, h \in PlannedHours \ {0} : Apply_predict_violation(d, h)
    \/ \E d \in Drivers : Apply_calculate_daily_totals(d)
    \/ \E d \in Drivers : Apply_check_violations(d)
    \/ \E d \in Drivers : Apply_calculate_hos_statistics(d)

SpecEngine == InitEngine /\ [][NextEngine]_vars

(* ----------------------------- certification --------------------------- *)
(* The certify endpoint and ELDLogService.certify_log, applied while       *)
(* status changes of the log's driver are in progress.  A status change    *)
(* runs statement by statement as above; a certification is one step.      *)
Users == Drivers \cup {"u2"}
\* the signature of a request to the endpoint ("" is a request without the
\* signature key) and the one ELDLogService.certify_log is called with
Signatures == {"", "sigA"}
ServiceSignatures == {"sigB"}

\* timezone.now() of a certification: later than every time stored before
CertNow ==
    Max(NextTick, 1 + SetMax({logs[i].certified_at : i \in DOMAIN logs}))

\* the certifications recorded stop at this reading of the clock
MaxCertClock == MaxEntries + 1

\* ELDLogService.certify_log on the object log
certify_log(log, signature_data, now) ==
    [log EXCEPT !.is_certified = TRUE,
                !.certified_at = now,
                !.signature = signature_data]

\* ELDLogService.certify_log called on the row lid as it is stored
ELDLogService_certify_log(lid, signature_data) ==
    /\ CertNow <= MaxCertClock
    /\ logs' = [logs EXCEPT ![lid] = certify_log(logs[lid], signature_data, CertNow)]
    /\ last' = [op |-> "certify_log", result |-> "ok", reason |-> ""]
    /\ UNCHANGED <<entries, violations, req, schedule, out, fleet>>

\* ELDLogViewSet.certify (POST {id}/certify/)
certify(u, lid, signature_data) ==
    /\ IF logs[lid].driver # u
       THEN /\ last' = [op |-> "certify", result |-> "forbidden", reason |-> ""]
            /\ UNCHANGED logs
       ELSE IF logs[lid].is_certified
       THEN /\ last' = [op |-> "certify", result |-> "already_certified", reason |-> ""]
            /\ UNCHANGED logs
       ELSE IF signature_data = ""
       THEN /\ last' = [op |-> "certify", result |-> "signature_required", reason |-> ""]
            /\ UNCHANGED logs
       ELSE /\ CertNow <= MaxCertClock
            /\ logs' = [logs EXCEPT ![lid] = certify_log(logs[lid], signature_data, CertNow)]
            /\ last' = [op |-> "certify", result |-> "ok", reason |-> ""]
    /\ UNCHANGED <<entries, violations, req, schedule, out, fleet>>

\* the company of the driver follows either schedule
InitCert ==
    /\ logs = << >>
    /\ entries = << >>
    /\ violations = << >>
    /\ last = [op |-> "none", result |-> "", reason |-> ""]
    /\ req = [r \in Requests |-> IdleRequest]
    /\ schedule \in OPERATION_SCHEDULE_CHOICES
    /\ out = NoOutput
    /\ NoFleet

NextCert ==
    \/ \E r \in Requests, d \in Drivers : StartRequest(r, "view", d, "OFF_DUTY")
    \/ \E r \in Requests : SelectActive(r)
    \/ \E r \in Requests : CloseActive(r)
    \/ \E r \in Requests : CreateEntry(r)
    \/ \E r \in Requests : Recalculate(r)
    \/ \E u \in Users, lid \in DOMAIN logs, sig \in Signatures : certify(u, lid, sig)
    \/ \E lid \in DOMAIN logs, sig \in ServiceSignatures : ELDLogService_certify_log(lid, sig)

SpecCert == InitCert /\ [][NextCert]_vars

(* ------------------------ the driver's hours (User) -------------------- *)
(* User.get_current_hos_hours and User.get_available_driving_hours of      *)
(* src/accounts, applied between status changes that go over midnight.     *)
\* the driving rows the method sums: DRIVING, started in the last 8 days
HosWindowEntries(L, E, d, now) ==
    {i \in DOMAIN E : /\ L[E[i].eld_log].driver = d
                      /\ E[i].status = "DRIVING"
                      /\ E[i].start_time >= now - 8 * Day}

\* User.get_current_hos_hours of a driver: entry.duration raises on a row
\* without end_time, the except clause prints the error and returns 0
get_current_hos_hours(L, E, d, now) ==
    LET driving_entries == HosWindowEntries(L, E, d, now)
    IN IF \E i \in driving_entries : ~HasEnd(E[i])
       THEN 0
       ELSE SumDuration(driving_entries, E)

\* User.get_available_driving_hours of a driver of a company
get_available_driving_hours(L, E, d, now, sch) ==
    LET max_hours == IF sch = "7_DAY" THEN 60 ELSE 70
        used_hours == get_current_hos_hours(L, E, d, now)
    IN Max(0, max_hours * Hour - used_hours)

\* the clock readings of two consecutive days
DayClock == {0, 10 * Hour, Day + Hour}
DriverStatusInputs == {"DRIVING", "OFF_DUTY"}

Apply_get_current_hos_hours(d, now) ==
    Returns([op |-> "get_current_hos_hours", driver |-> d, now |-> now,
             v |-> get_current_hos_hours(logs, entries, d, now)])

Apply_get_available_driving_hours(d, now) ==
    Returns([op |-> "get_available_driving_hours", driver |-> d, now |-> now,
             v |-> get_available_driving_hours(logs, entries, d, now, schedule)])

NextDriver ==
    \/ \E d \in Drivers, s \in DriverStatusInputs, now \in DayClock :
          ChangeDutyStatus(d, s, now)
    \/ \E d \in Drivers, s \in DriverStatusInputs, now \in DayClock :
          GatedChangeDutyStatus(d, s, now)
    \/ \E d \in Drivers, now \in DayClock : Apply_get_current_hos_hours(d, now)
    \/ \E d \in Drivers, now \in DayClock : Apply_get_available_driving_hours(d, now)

SpecDriver == InitCert /\ [][NextDriver]_vars

(* ------------------------------- the fleet ----------------------------- *)
(* Trip, Vehicle and VehicleAssignment of src/trips: the methods that move *)
(* a trip through its life and a vehicle from driver to driver, called one *)
(* after the other, and detect_implicit_trip of src/eld_logs.              *)
FleetDrivers == {"d1", "d2"}
MaxTrips == 2
MaxAssignments == 3

\* timezone.now() of a fleet operation: later than every time stored before
FleetNow ==
    1 + SetMax({trips[i].actual_departure : i \in DOMAIN trips}
               \cup {trips[i].actual_arrival : i \in DOMAIN trips}
               \cup {assignments[i].start_date : i \in DOMAIN assignments}
               \cup {assignments[i].end_date : i \in DOMAIN assignments})

\* Trip row as created with the field defaults of the model
NewTrip(d, v) ==
    [driver |-> d, vehicle |-> v, status |-> "PLANNED",
     actual_departure |-> NULL, actual_arrival |-> NULL]

\* the value a method of the fleet returned
FleetReturns(op, raised) == out' = [op |-> op, raised |-> raised]

\* TripListCreateView: a trip of driver d with vehicle v
create_trip(d, v) ==
    /\ Len(trips) < MaxTrips
    /\ trips' = Append(trips, NewTrip(d, v))
    /\ FleetReturns("create_trip", FALSE)
    /\ UNCHANGED <<logs, entries, violations, last, req, schedule, vehicles, assignments>>

\* Vehicle.can_start_trip
can_start_trip(vehicle) ==
    vehicle.is_active /\ vehicle.operational_status \in {"AVAILABLE", "IN_USE"}

\* Trip.can_be_started of the trip t
can_be_started(T, V, t) ==
    /\ T[t].status = "PLANNED"
    /\ can_start_trip(V[T[t].vehicle])
    /\ ~ \E j \in DOMAIN T \ {t} : T[j].driver = T[t].driver /\ T[j].status = "IN_PROGRESS"

\* Trip.start_trip
start_trip(t) ==
    /\ IF ~can_be_started(trips, vehicles, t)
       THEN /\ FleetReturns("start_trip", TRUE)
            /\ UNCHANGED <<trips, vehicles>>
       ELSE /\ trips' = [trips EXCEPT ![t].status = "IN_PROGRESS",
                                      ![t].actual_departure = FleetNow]
            /\ vehicles' = [vehicles EXCEPT ![trips[t].vehicle].operational_status = "IN_USE"]
            /\ FleetReturns("start_trip", FALSE)
    /\ UNCHANGED <<logs, entries, violations, last, req, schedule, assignments>>

\* Trip.complete_trip
complete_trip(t) ==
    /\ IF trips[t].status # "IN_PROGRESS"
       THEN /\ FleetReturns("complete_trip", TRUE)
            /\ UNCHANGED <<trips, vehicles>>
       ELSE /\ trips' = [trips EXCEPT ![t].status = "COMPLETED",
                                      ![t].actual_arrival = FleetNow]
            /\ vehicles' = [vehicles EXCEPT ![trips[t].vehicle].operational_status = "AVAILABLE"]
            /\ FleetReturns("complete_trip", FALSE)
    /\ UNCHANGED <<logs, entries, violations, last, req, schedule, assignments>>

\* Trip.cancel_trip
cancel_trip(t) ==
    /\ IF trips[t].status = "COMPLETED"
       THEN /\ FleetReturns("cancel_trip", TRUE)
            /\ UNCHANGED <<trips, vehicles>>
       ELSE /\ trips' = [trips EXCEPT ![t].status = "CANCELLED"]
            /\ vehicles' = IF trips[t].status = "IN_PROGRESS"
                           THEN [vehicles EXCEPT ![trips[t].vehicle].operational_status = "AVAILABLE"]
                           ELSE vehicles
            /\ FleetReturns("cancel_trip", FALSE)
    /\ UNCHANGED <<logs, entries, violations, last, req, schedule, assignments>>

\* Vehicle.get_current_assignment: assignments.filter(end_date__isnull=True)
\* .first() under Meta.ordering = ['-start_date']; 0 when there is none
get_current_assignment(A, v) ==
    LET open == {i \in DOMAIN A : A[i].vehicle = v /\ A[i].end_date = NULL}
    IN IF open = {} THEN 0
       ELSE CHOOSE i \in open : \A j \in open :
               \/ A[i].start_date > A[j].start_date
               \/ (A[i].start_date = A[j].start_date /\ i <= j)

\* VehicleAssignment.end_assignment of the row i (0: no row)
end_assignment_Noop(A, i, now) == A
end_assignment(A, i, now) ==
    IF i = 0 \/ A[i].end_date # NULL THEN A ELSE [A EXCEPT ![i].end_date = now]

\* Vehicle.assign_driver
assign_driver(v, driver) ==
    /\ Len(assignments) < MaxAssignments
    /\ LET now == FleetNow
           current_assignment == get_current_assignment(assignments, v)
           A1 == end_assignment(assignments, current_assignment, now)
       IN assignments' = Append(A1, [vehicle |-> v, driver |-> driver,
                                     start_date |-> now, end_date |-> NULL])
    /\ vehicles' = [vehicles EXCEPT ![v].current_driver = driver]
    /\ FleetReturns("assign_driver", FALSE)
    /\ UNCHANGED <<logs, entries, violations, last, req, schedule, trips>>

\* Vehicle.unassign_driver
unassign_driver(v) ==
    /\ assignments' = end_assignment(assignments,
                                     get_current_assignment(assignments, v), FleetNow)
    /\ vehicles' = [vehicles EXCEPT ![v].current_driver = NoDriver]
    /\ FleetReturns("unassign_driver", FALSE)
    /\ UNCHANGED <<logs, entries, violations, last, req, schedule, trips>>

\* detect_implicit_trip: the trip found, 0 for None
detect_implicit_trip(T, driver) ==
    LET found == {i \in DOMAIN T : /\ T[i].driver = driver
                                   /\ T[i].status \in {"AT_PICKUP", "IN_TRANSIT"}
                                   /\ T[i].actual_departure # NULL
                                   /\ T[i].actual_arrival = NULL}
    IN IF found = {} THEN 0
       ELSE CHOOSE i \in found : \A j \in found :
               \/ T[i].actual_departure > T[j].actual_departure
               \/ (T[i].actual_departure = T[j].actual_departure /\ i <= j)

Apply_detect_implicit_trip(driver) ==
    /\ out' = [op |-> "detect_implicit_trip", driver |-> driver,
               v |-> detect_implicit_trip(trips, driver)]
    /\ UNCHANGED <<logs, entries, violations, last, req, schedule, fleet>>

\* the life of the trips
NextTrips ==
    \/ \E d \in FleetDrivers, v \in Vehicles : create_trip(d, v)
    \/ \E t \in DOMAIN trips : start_trip(t)
    \/ \E t \in DOMAIN trips : complete_trip(t)
    \/ \E t \in DOMAIN trips : cancel_trip(t)
    \/ \E d \in FleetDrivers : Apply_detect_implicit_trip(d)

SpecTrips == Init /\ [][NextTrips]_vars

\* the drivers of the vehicles
NextAssign ==
    \/ \E v \in Vehicles, d \in FleetDrivers : assign_driver(v, d)
    \/ \E v \in Vehicles : unassign_driver(v)

SpecAssign == Init /\ [][NextAssign]_vars

(* ------------------------------- claims -------------------------------- *)
StatusChangeStep(d, s, now) ==
    \/ ChangeDutyStatus(d, s, now)
    \/ GatedChangeDutyStatus(d, s, now)
    \/ AddDriverActivitySegment(d, s, now)

\* C1: after any sequence of status changes through any of the entry points,
\* every DailyLog owns at most one segment whose end time is null.
C1_AtMostOneActiveSegment ==
    \A lid \in DOMAIN logs : Cardinality(OpenEntriesOf(entries, lid)) <= 1

\* C2: two concurrent status changes of one driver never both read the same
\* active segment, each close it and each open a new one, leaving two active
\* segments in the DailyLog.
C2_ConcurrentChangesExclusive ==
    ~ \E r1, r2 \in Requests :
        /\ r1 # r2
        /\ req[r1].pc \in {"totals", "done"}
        /\ req[r2].pc \in {"totals", "done"}
        /\ req[r1].current # 0
        /\ req[r1].current = req[r2].current
        /\ req[r1].eld_log = req[r2].eld_log
        /\ Cardinality(OpenEntriesOf(entries, req[r1].eld_log)) >= 2

\* C3: the closed segments of a DailyLog are pairwise non-overlapping and
\* ordered by start time: a.start <= b.start implies a.end <= b.start.
C3_ClosedSegmentsOrdered ==
    \A a, b \in DOMAIN entries :
        (/\ a # b
         /\ entries[a].eld_log = entries[b].eld_log
         /\ HasEnd(entries[a]) /\ HasEnd(entries[b])
         /\ entries[a].start_time <= entries[b].start_time)
        => entries[a].end_time <= entries[b].start_time

\* C4: every closed segment starts strictly before it ends (a status change
\* whose timestamp is not after the active segment's start is rejected).
C4_ClosedSegmentStartsBeforeEnd ==
    \A i \in DOMAIN entries :
        HasEnd(entries[i]) => entries[i].start_time < entries[i].end_time

C7_DrivingRejectedWhenNotPermitted ==
    [][\A d \in Drivers, now \in ClockValues :
          LET st == get_current_hos_status(get_or_create(logs, d, date(now)),
                                           entries, d, now)
          IN (/\ last'.op = "gated_change_duty_status"
              /\ ~st.raised
              /\ ~can_start_driving(st).can
              /\ GatedChangeDutyStatus(d, "DRIVING", now))
             => /\ last'.result = "driving_not_permitted"
                /\ entries' = entries]_vars

\* a DRIVING request was rejected while a segment was active
C7_Witness ==
    /\ last.op = "gated_change_duty_status"
    /\ last.result = "driving_not_permitted"
    /\ \E lid \in DOMAIN logs : OpenEntriesOf(entries, lid) # {}

\* C8: on the gated path a change to a status other than DRIVING always
\* succeeds, closing the active segment and opening the new one.
C8_NonDrivingAlwaysSucceeds ==
    [][\A d \in Drivers, s \in STATUS_CHOICES \ {"DRIVING"}, now \in ClockValues :
          GatedChangeDutyStatus(d, s, now)
          => /\ last'.result = "created"
             /\ Len(entries') = Len(entries) + 1
             /\ entries'[Len(entries')].status = s
             /\ entries'[Len(entries')].end_time = NULL]_vars

\* the first failing condition in the order cycle, daily driving, daily duty,
\* break, rest
ClaimedReason(st) ==
    IF st.cycle.hours_available <= 0 THEN "CYCLE"
    ELSE IF MAX_DRIVING_HOURS * Hour - st.daily.driving <= 0 THEN "DAILY_DRIVING"
    ELSE IF MAX_DUTY_HOURS * Hour - st.daily.duty <= 0 THEN "DAILY_DUTY"
    ELSE IF st.break.required THEN "BREAK"
    ELSE IF st.rest.needs_rest THEN "REST"
    ELSE "GRANTED"

\* C9: can_start_driving reports the first failing condition in the order
\* cycle hours, daily driving, daily duty, break, rest; when only rest is
\* required the reason is the rest requirement.
C9_ReasonIsFirstFailingCondition ==
    [][\A d \in Drivers, now \in ClockValues :
          LET st == get_current_hos_status(get_or_create(logs, d, date(now)),
                                           entries, d, now)
          IN (can_drive(d, now) /\ ~st.raised)
             => last'.reason = ClaimedReason(st)]_vars

\* C10: the queries can_drive, available_time, predict_violations, hos_status
\* and the current-status query leave DailyLogs, segments and violation
\* records as they were.
C10_QueriesDoNotMutate ==
    [][\A d \in Drivers, now \in ClockValues :
          (\/ can_drive(d, now)
           \/ available_time(d, now)
           \/ hos_status(d, now)
           \/ get_driver_current_hos_status(d, now)
           \/ \E h \in PlannedHours : predict_violations(d, h, now))
          => UNCHANGED <<logs, entries, violations>>]_vars

\* C11: for a driver whose log of the day holds nothing but the DRIVING
\* segment opened at T0, a change to OFF_DUTY at T0 + d succeeds and the daily
\* totals then read driving = d and off_duty = 0, without a violation when
\* d <= 11 h.
C11_RoundTripTotals ==
    [][\A d \in Drivers, now \in ClockValues :
          LET ids == LogIds(logs, d, date(now))
              lid == TodayLog(logs, d, date(now))
              es == EntriesOf(entries, lid)
              e0 == entries[CHOOSE i \in es : TRUE]
          IN (/\ ids # {}
              /\ Cardinality(es) = 1
              /\ e0.status = "DRIVING"
              /\ ~HasEnd(e0)
              /\ e0.start_time < now
              /\ now - e0.start_time <= MAX_DRIVING_HOURS * Hour
              /\ StatusChangeStep(d, "OFF_DUTY", now))
             => /\ last'.result \in {"ok", "created"}
                /\ logs'[lid].driving_hours = now - e0.start_time
                /\ logs'[lid].off_duty_hours = 0
                /\ ~logs'[lid].has_violations]_vars

\* the sum of the durations of the closed segments of a status in a log
ClosedDurationSum(E, lid, st) ==
    SumDuration({i \in EntriesOf(E, lid) : E[i].status = st /\ HasEnd(E[i])}, E)

\* C12: the four stored totals of every DailyLog equal the per-status sums of
\* the durations of the log's segments, whatever status changes were made.
C12_StoredTotalsAreRecomputed ==
    \A lid \in DOMAIN logs :
        /\ logs[lid].off_duty_hours = ClosedDurationSum(entries, lid, "OFF_DUTY")
        /\ logs[lid].sleeper_berth_hours = ClosedDurationSum(entries, lid, "SLEEPER_BERTH")
        /\ logs[lid].driving_hours = ClosedDurationSum(entries, lid, "DRIVING")
        /\ logs[lid].on_duty_not_driving_hours =
              ClosedDurationSum(entries, lid, "ON_DUTY_NOT_DRIVING")

\* the window and the ceiling of a company schedule
ScheduleDays(sch) == IF sch = "7_DAY" THEN 7 ELSE 8
ScheduleCeiling(sch) == IF sch = "7_DAY" THEN 60 * Hour ELSE 70 * Hour

\* driving + on-duty-not-driving hours of the driver's logs of the n days
\* ending today
WindowDuty(L, d, today, n) ==
    SumDuty({i \in DOMAIN L : /\ L[i].driver = d
                              /\ L[i].log_date > today - n
                              /\ L[i].log_date <= today}, L)

\* C13: the cycle totals are the duty hours of the trailing 8 days against a
\* ceiling of 70 h for a 70h/8-day company, of the trailing 7 days against 60 h
\* for a 60h/7-day company, and hours-available = max(0, ceiling - used).
C13_CycleTotalsFollowSchedule ==
    out.op = "_calculate_cycle_times"
    => LET used == WindowDuty(logs, CHOOSE d \in Drivers : TRUE, EngineToday,
                              ScheduleDays(schedule))
       IN /\ out.v.hours_used = used
          /\ out.v.hours_available = Max(0, ScheduleCeiling(schedule) - used)

\* the driving accumulated since the last break of 30 minutes, over the closed
\* segments s of a day taken in chronological order
RECURSIVE DrivingSinceBreak(_, _, _)
DrivingSinceBreak(s, E, acc) ==
    IF s = << >> THEN acc
    ELSE LET e == E[Head(s)] IN
         DrivingSinceBreak(Tail(s), E,
            IF ~HasEnd(e) THEN acc
            ELSE IF e.status = "DRIVING" THEN acc + duration(e)
            ELSE IF e.status \in RestStatuses
                    /\ DurationMinutesAtLeast(e, REQUIRED_BREAK_MINUTES) THEN 0
            ELSE acc)

\* C14: the break status accumulates the day's DRIVING durations in
\* chronological order, resets at every OFF_DUTY or SLEEPER_BERTH segment of at
\* least 30 minutes (one that starts the instant the DRIVING segment ends
\* included), and requires a break exactly when the accumulated driving is at
\* least 8 hours.
C14_BreakResetsAtEveryRest ==
    (out.op = "_check_break_requirement" /\ ~out.v.raised)
    => LET lid == TodayLog(logs, CHOOSE d \in Drivers : TRUE, EngineToday)
           acc == DrivingSinceBreak(SortByStart(EntriesOf(entries, lid), entries),
                                    entries, 0)
       IN out.v.required = (acc >= BREAK_REQUIRED_AFTER_HOURS * Hour)

\* the closed rest segments of at least 10 hours in the driver's three most
\* recent logs
QualifyingRest(L, E, d, today) ==
    LET all == LogsByDateDesc({i \in DOMAIN L : L[i].driver = d /\ L[i].log_date <= today}, L)
        last_logs == SubSeq(all, 1, Min(RestLookbackLogs, Len(all)))
    IN {i \in DOMAIN E :
          /\ \E k \in DOMAIN last_logs : E[i].eld_log = last_logs[k]
          /\ E[i].status \in RestStatuses
          /\ HasEnd(E[i])
          /\ DurationHoursAtLeast(E[i], REQUIRED_REST_HOURS)}

\* C15: when the three most recent logs hold no off-duty or sleeper-berth
\* segment of at least 10 hours, the rest status reports rest required and
\* can_start_driving answers false (a driver without logs included).
C15_NoRestFoundBlocksDriving ==
    [][\A d \in Drivers, now \in ClockValues :
          (/\ last'.op = "can_drive"
           /\ QualifyingRest(logs, entries, d, date(now)) = {}
           /\ can_drive(d, now))
          => /\ last'.result = "ok"
             /\ last'.reason # "GRANTED"]_vars

\* C16: the available driving time is the minimum of the daily driving
\* remaining, the daily duty remaining and the cycle remaining, and its
\* limiting factor names a constraint that attains that minimum (with a cycle
\* total of 69 h and daily remainders above 1 h: 1 h, limited by the cycle).
C16_AvailableIsMinimumOfRemainders ==
    (out.op = "calculate_available_driving_time" /\ ~out.raised)
    => LET driving_remaining == Max(0, MAX_DRIVING_HOURS * Hour - out.status.daily.driving)
           duty_remaining == Max(0, MAX_DUTY_HOURS * Hour - out.status.daily.duty)
           cycle_remaining == out.status.cycle.hours_available
           least == Min(driving_remaining, Min(duty_remaining, cycle_remaining))
       IN /\ out.v.effective_available = least
          /\ \/ out.v.limiting_factor = "daily_driving_limit" /\ driving_remaining = least
             \/ out.v.limiting_factor = "daily_duty_window" /\ duty_remaining = least
             \/ out.v.limiting_factor = "cycle_limit" /\ cycle_remaining = least

\* the thresholds exceeded after adding the planned hours, with the excess
ClaimedPrediction(L, d, today, sch, planned) ==
    LET log == L[TodayLog(L, d, today)]
        new_driving == log.driving_hours + planned
        new_duty == log.driving_hours + log.on_duty_not_driving_hours + planned
        new_cycle == WindowDuty(L, d, today, ScheduleDays(sch)) + planned
    IN (IF new_driving > MAX_DRIVING_HOURS * Hour
        THEN {[type |-> "DRIVING_LIMIT",
               excess_hours |-> new_driving - MAX_DRIVING_HOURS * Hour]} ELSE {})
       \cup
       (IF new_duty > MAX_DUTY_HOURS * Hour
        THEN {[type |-> "DUTY_LIMIT",
               excess_hours |-> new_duty - MAX_DUTY_HOURS * Hour]} ELSE {})
       \cup
       (IF new_cycle > ScheduleCeiling(sch)
        THEN {[type |-> "CYCLE_LIMIT",
               excess_hours |-> new_cycle - ScheduleCeiling(sch)]} ELSE {})

\* C17: predict_violation reports exactly the thresholds exceeded after adding
\* the planned hours to today's driving (11 h), today's duty (14 h) and the
\* cycle total (the ceiling of the driver's schedule, 60 h or 70 h), each with
\* excess = new total - limit.
C17_PredictionFollowsSchedule ==
    (out.op = "predict_violation" /\ ~out.raised)
    => out.v.violations =
          ClaimedPrediction(logs, CHOOSE d \in Drivers : TRUE, EngineToday,
                            schedule, out.v.planned)

\* C18: a daily driving total of exactly 11.00 h is no driving-limit violation
\* and any total above it (11.01 h) is one, for the engine and for the log's
\* own check; at exactly 11.00 h can_start_driving is already false and the
\* gate of the gated path is closed.
C18_ThresholdBoundary ==
    /\ (out.op = "can_start_driving" /\ ~out.raised)
       => /\ ("DRIVING_LIMIT" \in out.status.violations)
                = (out.status.daily.driving > 11 * Hour)
          /\ (out.status.daily.driving >= 11 * Hour)
                => (~out.v.can /\ DrivingGate("DRIVING", out.v.can))
    /\ out.op = "check_violations"
       => LET log == logs[out.eld_log] IN
          /\ (log.driving_hours > 11 * Hour) => log.has_violations
          /\ (/\ log.driving_hours <= 11 * Hour
              /\ total_duty_hours(log) <= 14 * Hour
              /\ WindowDuty(logs, log.driver, log.log_date, 8) <= 70 * Hour)
             => ~log.has_violations

\* a driver who has rested and has driven exactly 11.00 h today is refused for
\* the daily driving limit, without a violation being detected
C18_Witness ==
    /\ out.op = "can_start_driving"
    /\ ~out.raised
    /\ ~out.status.rest.needs_rest
    /\ out.status.daily.driving = 11 * Hour
    /\ out.status.violations = {}
    /\ ~out.v.can
    /\ out.v.reason = "DAILY_DRIVING"

\* a recompute of today's log has just been made and has saved the log
Recomputed ==
    \/ out.op = "check_violations"
    \/ (out.op = "calculate_daily_totals" /\ ~out.raised)

\* the limits a log is over: driving, duty, and the cycle of the schedule
Breaches(L, lid, sch) ==
    {k \in {"DRIVING_LIMIT", "DUTY_LIMIT", "CYCLE_LIMIT"} :
        \/ (k = "DRIVING_LIMIT" /\ L[lid].driving_hours > 11 * Hour)
        \/ (k = "DUTY_LIMIT" /\ total_duty_hours(L[lid]) > 14 * Hour)
        \/ (k = "CYCLE_LIMIT"
            /\ WindowDuty(L, L[lid].driver, L[lid].log_date, ScheduleDays(sch))
                  > ScheduleCeiling(sch))}

\* C19: after a recompute that leaves a DailyLog over the driving, duty or
\* cycle limit, exactly one unresolved HOSViolation of the matching kind exists
\* for that log.
C19_OneOpenViolationPerBreach ==
    Recomputed
    => \A k \in Breaches(logs, out.eld_log, schedule) :
          Cardinality({i \in DOMAIN violations :
                          /\ violations[i].eld_log = out.eld_log
                          /\ violations[i].violation_type = k
                          /\ ~violations[i].is_resolved}) = 1

\* C20: after a recompute the log's has_violations flag is true exactly when
\* driving > 11 h or duty > 14 h or the cycle hours used over the trailing
\* window exceed the cycle ceiling.
C20_FlagCoversAllThreeChecks ==
    Recomputed
    => (logs[out.eld_log].has_violations
           = (Breaches(logs, out.eld_log, schedule) # {}))

\* a certification call on the log lid, through either entry point
CertifyCall(lid) ==
    \/ \E u \in Drivers, sig \in Signatures \ {""} : certify(u, lid, sig)
    \/ \E sig \in ServiceSignatures : ELDLogService_certify_log(lid, sig)

\* C21: a certify call on a DailyLog that is already certified fails with
\* AlreadyCertified and leaves the signature and the certification timestamp of
\* the first call unchanged, through the certify endpoint and through
\* ELDLogService.certify_log.
C21_SecondCertifyRejected ==
    [][\A lid \in DOMAIN logs :
          (logs[lid].is_certified /\ CertifyCall(lid))
          => /\ last'.result = "already_certified"
             /\ logs'[lid].signature = logs[lid].signature
             /\ logs'[lid].certified_at = logs[lid].certified_at]_vars

\* the endpoint alone refuses the second call
C21_EndpointRejectsSecondCertify ==
    [][\A lid \in DOMAIN logs, u \in Drivers, sig \in Signatures :
          (logs[lid].is_certified /\ certify(u, lid, sig))
          => /\ last'.result = "already_certified"
             /\ logs' = logs]_vars

\* C22: certification is one-way: once a DailyLog is certified, no later step
\* (status changes, recomputes of totals, certify calls, interleaved) returns
\* it to uncertified.
C22_CertificationIsOneWay ==
    [][\A lid \in DOMAIN logs : logs[lid].is_certified => logs'[lid].is_certified]_vars

\* C23: a DailyLog's cycle-hours-available is the ceiling of the driver's
\* company schedule (70 for 70h/8-day, 60 for 60h/7-day) from its creation on,
\* and no later operation changes it.
C23_CycleAvailableFollowsSchedule ==
    \A lid \in DOMAIN logs :
        logs[lid].cycle_hours_available = ScheduleCeiling(schedule)

\* the part of C23 the code keeps: no operation changes the value once stored
C23_CycleAvailableNeverChanges ==
    [][\A lid \in DOMAIN logs :
          logs'[lid].cycle_hours_available = logs[lid].cycle_hours_available]_vars

\* the DRIVING time the driver has recorded in the window of the method: the
\* closed DRIVING segments and the part of an open one elapsed at now
RecordedDriving(L, E, d, now) ==
    LET S == HosWindowEntries(L, E, d, now)
    IN SumDuration({i \in S : HasEnd(E[i])}, E)
       + SumDuration({i \in S : ~HasEnd(E[i]) /\ E[i].start_time < now},
                     [i \in DOMAIN E |-> [E[i] EXCEPT !.end_time = now]])

\* C24: User.get_current_hos_hours never returns 0 for a driver who has
\* recorded DRIVING time in the window, an open DRIVING segment included: a
\* failure of the computation is not turned into a zero result.
C24_HoursNeverDefaultToZero ==
    [][\A d \in Drivers, now \in DayClock :
          (Apply_get_current_hos_hours(d, now)
           /\ RecordedDriving(logs, entries, d, now) > 0)
          => out'.v # 0]_vars

\* C25: detect_implicit_trip returns a trip of the driver when the driver has a
\* trip in progress or a trip assigned and not yet started, and returns None
\* when the driver has no trip or only completed trips.
C25_ImplicitTripIsTheActiveTrip ==
    [][\A d \in FleetDrivers :
          Apply_detect_implicit_trip(d)
          => LET mine == {i \in DOMAIN trips : trips[i].driver = d}
                 active == {i \in mine : trips[i].status \in {"PLANNED", "IN_PROGRESS"}}
             IN /\ (active # {}) => (out'.v \in active)
                /\ (\A i \in mine : trips[i].status = "COMPLETED") => (out'.v = 0)]_vars

\* the half of C25 the code keeps: nothing is returned for a driver without a
\* trip or with completed trips only
C25_NoTripGivesNone ==
    [][\A d \in FleetDrivers :
          (Apply_detect_implicit_trip(d)
           /\ \A i \in DOMAIN trips : trips[i].driver = d => trips[i].status = "COMPLETED")
          => out'.v = 0]_vars

\* C26: the driver-activity statistics report, under the keys driving_time,
\* on_duty_time and off_duty_time, the sum of the durations of the day's
\* segments with status DRIVING, ON_DUTY_NOT_DRIVING and OFF_DUTY.
C26_StatisticsKeysAndSums ==
    out.op = "calculate_hos_statistics"
    => /\ {"driving_time", "on_duty_time", "off_duty_time"} \subseteq DOMAIN out.v
       /\ out.v["driving_time"] = ClosedDurationSum(entries, out.eld_log, "DRIVING")
       /\ out.v["on_duty_time"] = ClosedDurationSum(entries, out.eld_log, "ON_DUTY_NOT_DRIVING")
       /\ out.v["off_duty_time"] = ClosedDurationSum(entries, out.eld_log, "OFF_DUTY")

\* the sums themselves are the ones C26 states, under the keys the code uses
C26_SumsUnderTheKeysOfTheCode ==
    out.op = "calculate_hos_statistics"
    => /\ out.v.drive_time = ClosedDurationSum(entries, out.eld_log, "DRIVING")
       /\ out.v.on_duty_time = ClosedDurationSum(entries, out.eld_log, "ON_DUTY_NOT_DRIVING")
       /\ out.v.off_duty_time = ClosedDurationSum(entries, out.eld_log, "OFF_DUTY")

\* C27: whenever can_start_driving returns true, today's driving total is
\* strictly below 11 h, today's duty total strictly below 14 h, the cycle hours
\* used strictly below the cycle ceiling of the driver's schedule, no 30-minute
\* break is required and no 10-hour rest is required.
C27_GateIsSound ==
    (out.op = "can_start_driving" /\ ~out.raised /\ out.v.can)
    => /\ out.status.daily.driving < 11 * Hour
       /\ out.status.daily.duty < 14 * Hour
       /\ WindowDuty(logs, "d1", EngineToday, ScheduleDays(schedule))
             < ScheduleCeiling(schedule)
       /\ ~out.status.break.required
       /\ ~out.status.rest.needs_rest

\* C27 for the 70h/8-day schedule, the one the engine computes with
C27_GateIsSoundFor70h ==
    (out.op = "can_start_driving" /\ ~out.raised /\ out.v.can)
    => /\ out.status.daily.driving < 11 * Hour
       /\ out.status.daily.duty < 14 * Hour
       /\ WindowDuty(logs, "d1", EngineToday, 8) < 70 * Hour
       /\ ~out.status.break.required
       /\ ~out.status.rest.needs_rest

\* the DailyLogs of driver d that own an open segment
LogsWithOpenSegment(L, E, d) ==
    {lid \in DOMAIN L : L[lid].driver = d /\ OpenEntriesOf(E, lid) # {}}

\* C28: across calendar days a driver has at most one active segment: the
\* first status change of a new day closes the segment left open the day
\* before, so no driver has open segments in two different DailyLogs.
C28_OneActiveSegmentAcrossDays ==
    \A d \in Drivers : Cardinality(LogsWithOpenSegment(logs, entries, d)) <= 1

\* C29: after any sequence of start_trip, complete_trip and cancel_trip calls
\* over trips that share a vehicle, the vehicle is IN_USE whenever at least one
\* trip using it is IN_PROGRESS.
C29_VehicleInUseWhileTripInProgress ==
    \A t \in DOMAIN trips :
        trips[t].status = "IN_PROGRESS"
        => vehicles[trips[t].vehicle].operational_status = "IN_USE"

\* C29 for vehicles used by one trip at a time
C29_InUseWhenNotShared ==
    \A t \in DOMAIN trips :
        (/\ trips[t].status = "IN_PROGRESS"
         /\ \A u \in DOMAIN trips \ {t} : trips[u].vehicle # trips[t].vehicle)
        => vehicles[trips[t].vehicle].operational_status = "IN_USE"

\* the VehicleAssignment rows of vehicle v with a null end date
OpenAssignments(A, v) ==
    {i \in DOMAIN A : A[i].vehicle = v /\ A[i].end_date = NULL}

\* C30: after any sequence of assign_driver and unassign_driver calls, each
\* vehicle has at most one VehicleAssignment with a null end date, and the
\* vehicle's current_driver is the driver of that open assignment, null
\* exactly when no assignment is open.
C30_OneOpenAssignmentPerVehicle ==
    \A v \in Vehicles :
        LET open == OpenAssignments(assignments, v)
        IN /\ Cardinality(open) <= 1
           /\ \A i \in open : vehicles[v].current_driver = assignments[i].driver
           /\ (open = {}) = (vehicles[v].current_driver = NoDriver)

\* a vehicle that changed driver: the first assignment is closed, the second
\* one is open and names the current driver
C30_Witness ==
    \E v \in Vehicles, i, j \in DOMAIN assignments :
        /\ assignments[i].vehicle = v /\ assignments[j].vehicle = v
        /\ assignments[i].end_date # NULL
        /\ assignments[j].end_date = NULL
        /\ assignments[i].driver # assignments[j].driver
        /\ vehicles[v].current_driver = assignments[j].driver
        /\ out.op = "assign_driver"
====
